---- MODULE Spec2Model ----
(***************************************************************************)
(* Model of apple-codesign/src/app_store_connect.rs: the App Store Connect *)
(* client (token slot behind a mutex, four gateway operations) and the     *)
(* interpretation of notarization status documents.                        *)
(*                                                                         *)
(* Rust's Option<T> is modelled as a sequence: None is <<>> and Some(x) is *)
(* <<x>>.                                                                  *)
(***************************************************************************)
EXTENDS Integers, Sequences, FiniteSets, TLC

VARIABLES
    token,       \* AppStoreConnectClient.token: the Option<String> in the Mutex
    lockHolder,  \* the caller owning the MutexGuard, as an Option
    now,         \* SystemTime::now() in seconds since the epoch
    mintCalls,   \* calls of ConnectToken::new_token so far
    mintFails,   \* of which returned Err
    pc,          \* per caller: position inside the gateway operation
    op,          \* per caller: the operation being executed
    bearer,      \* per caller: the local `token` clone, as an Option
    inflight,    \* per caller: the request handed to the transport, as an Option
    logUrl,      \* per caller: developer_log_url decoded in get_submission_log
    result,      \* per caller: what the operation returned
    sent,        \* per caller: transport requests sent by the current call
    doc,         \* interpreter: the DevIdPlusInfoResponse last received
    prevDoc,     \* interpreter: the one received before it, as an Option
    stateStr,    \* interpreter: state_str() of doc
    prevStateStr,\* interpreter: state_str() of prevDoc, as an Option
    done,        \* interpreter: is_done() of doc
    legacyRes,   \* interpreter: into_result() of doc
    statusText,  \* interpreter: the status string of the last SubmissionResponse
    subRes,      \* interpreter: SubmissionResponse::into_result() of it
    mintIn,      \* minter: the arguments of the last new_token call, as an Option
    mintOut      \* minter: what that call produced, as an Option

gwVars == <<token, lockHolder, now, mintCalls, mintFails, pc, op, bearer,
            inflight, logUrl, result, sent>>

inVars == <<doc, prevDoc, stateStr, prevStateStr, done, legacyRes, statusText,
            subRes>>

mtVars == <<mintIn, mintOut>>

vars == <<token, lockHolder, now, mintCalls, mintFails, pc, op, bearer,
          inflight, logUrl, result, sent, doc, prevDoc, stateStr,
          prevStateStr, done, legacyRes, statusText, subRes, mintIn, mintOut>>

---------------------------------------------------------------------------
(* Option<T> *)

None == <<>>

Some(x) == <<x>>

IsSome(o) == o # <<>>

IsNone(o) == o = <<>>

Unwrap(o) == o[1]

---------------------------------------------------------------------------
(* Bounds of the model *)

NumCallers == 2

MaxClock == 450

ClockStep == 150

MaxMintFails == 1

\* The modulus of the machine word standing in for u64 (2^64 in the code).
U64Modulus == 1024

Callers == 1 .. NumCallers

---------------------------------------------------------------------------
(* Program constants *)

TokenDuration == 300

ITUNES_PRODUCER_SERVICE_URL == <<"https://contentdelivery.itunes.apple.com/WebObjects/MZLabelService.woa/json/MZITunesProducerService">>

APPLE_NOTARY_SUBMIT_SOFTWARE_URL == <<"https://appstoreconnect.apple.com/notary/v2/submissions">>

\* format!("https://appstoreconnect.apple.com/notary/v2/submissions/{}", id)
SubmissionUrl(id) == <<"https://appstoreconnect.apple.com/notary/v2/submissions/", id>>

\* format!("https://appstoreconnect.apple.com/notary/v2/submissions/{}/logs", id)
SubmissionLogsUrl(id) == <<"https://appstoreconnect.apple.com/notary/v2/submissions/", id, "/logs">>

\* The signing identity the client was constructed with.
connect_token == [key_id |-> "DEADBEEF42", issuer_id |-> "issuer-1"]

Ops == {"developer_id_plus_info", "create_submission", "get_submission",
        "get_submission_log"}

\* Identifiers callers pass (request UUID, sha256, submission id).
Ids == {"id-1"}

\* developerLogUrl values the submission-log endpoint may answer with.
LogUrls == {<<"https://log.example/a">>, <<"https://log.example/b">>}

---------------------------------------------------------------------------
(* ConnectToken::new_token *)

\* Header { kid: Some(self.key_id.clone()), alg: Algorithm::ES256, .. }
NewTokenHeader(identity) == [kid |-> Some(identity.key_id), alg |-> "ES256"]

\* now + duration does not fit the u64 the claims hold.
Overflows(t, duration) == t + duration >= U64Modulus

\* ConnectTokenRequest { iss, iat: now, exp: now + duration, aud }; the sum
\* is a u64 addition, which wraps where the build does not check overflow.
NewTokenClaims(identity, t, duration) ==
    [iss |-> identity.issuer_id,
     iat |-> t,
     exp |-> (t + duration) % U64Modulus,
     aud |-> "appstoreconnect-v1"]

\* jsonwebtoken::encode(&header, &claims, &self.encoding_key): the encoded
\* token carries the header, the claims and an ES256 signature; ECDSA signing
\* draws a fresh nonce, so the signature of each call is its own (serial).
new_token(identity, t, duration, serial) ==
    [header |-> NewTokenHeader(identity),
     claims |-> NewTokenClaims(identity, t, duration),
     sig    |-> serial]

\* Signing identities, clock values and validity windows new_token is
\* called with.
Identities == [key_id : {"DEADBEEF42", "KEY2"}, issuer_id : {"issuer-1", "issuer-2"}]

MintClocks == {0, 1, 450, U64Modulus - 1}

MintDurations == {0, 1, 300, U64Modulus - 300, U64Modulus - 1}

\* One call of new_token(duration) with the clock at t. jsonwebtoken::encode
\* may fail (Err). Where now + duration overflows, a build with overflow
\* checks panics and a build without them wraps.
MintToken(identity, t, duration, serial) ==
    /\ mintIn' = Some([identity |-> identity, now |-> t, duration |-> duration])
    /\ \/ mintOut' = Some([kind |-> "Ok",
                           value |-> Some(new_token(identity, t, duration, serial))])
       \/ mintOut' = Some([kind |-> "Err", value |-> None])
       \/ /\ Overflows(t, duration)
          /\ mintOut' = Some([kind |-> "Panic", value |-> None])
    /\ UNCHANGED <<gwVars, inVars>>

\* A token is expired once the clock has reached its exp claim.
Expired(tok, t) == t >= tok.claims.exp

---------------------------------------------------------------------------
(* The token section every gateway operation opens with:                   *)
(*     let token = {                                                       *)
(*         let mut token = self.token.lock().unwrap();                     *)
(*         if token.is_none() {                                            *)
(*             token.replace(self.connect_token.new_token(300)?);          *)
(*         }                                                               *)
(*         token.as_ref().unwrap().clone()                                 *)
(*     };                                                                  *)

\* Mutant: the slot is read and written with no mutual exclusion.
CanLock_NoExclusion(c) == TRUE

\* Mutex::lock blocks until no other thread owns the guard.
CanLock(c) == IsNone(lockHolder)

\* Mutant: the check also asks for a fresh token once the cached one expired.
NeedsMint_OrExpired == IsNone(token) \/ Expired(Unwrap(token), now)

\* token.is_none()
NeedsMint == IsNone(token)

\* Mutant: the guard is bound in the function body and lives until it returns.
DropGuard_AtReturn(c) == lockHolder

\* The MutexGuard is dropped at the end of the block (or by `?`).
DropGuard(c) == IF lockHolder = Some(c) THEN None ELSE lockHolder

\* Mutant: token.take().unwrap() moves the value out of the slot.
SlotAfterClone_Take == None

\* token.as_ref().unwrap().clone() borrows the slot and leaves it as it is.
SlotAfterClone == token

\* The URL each operation sends its authenticated request to.
RequestUrl(o) ==
    CASE o.name = "developer_id_plus_info" -> ITUNES_PRODUCER_SERVICE_URL
      [] o.name = "create_submission"      -> APPLE_NOTARY_SUBMIT_SOFTWARE_URL
      [] o.name = "get_submission"         -> SubmissionUrl(o.id)
      [] o.name = "get_submission_log"     -> SubmissionLogsUrl(o.id)

\* A caller enters one of the four operations.
Call(c, o, id) ==
    /\ pc[c] = "idle"
    /\ pc' = [pc EXCEPT ![c] = "lock"]
    /\ op' = [op EXCEPT ![c] = Some([name |-> o, id |-> id])]
    /\ UNCHANGED <<token, lockHolder, now, mintCalls, mintFails, bearer,
                   inflight, logUrl, result>>
    /\ UNCHANGED sent
    /\ UNCHANGED <<inVars, mtVars>>

\* self.token.lock().unwrap()
Lock(c) ==
    /\ pc[c] = "lock"
    /\ CanLock(c)
    /\ lockHolder' = Some(c)
    /\ pc' = [pc EXCEPT ![c] = "check"]
    /\ UNCHANGED <<token, now, mintCalls, mintFails, op, bearer, inflight,
                   logUrl, result>>
    /\ UNCHANGED sent
    /\ UNCHANGED <<inVars, mtVars>>

\* if token.is_none() { ... }
Check(c) ==
    /\ pc[c] = "check"
    /\ pc' = [pc EXCEPT ![c] = IF NeedsMint THEN "mint" ELSE "clone"]
    /\ UNCHANGED <<token, lockHolder, now, mintCalls, mintFails, op, bearer,
                   inflight, logUrl, result>>
    /\ UNCHANGED sent
    /\ UNCHANGED <<inVars, mtVars>>

\* token.replace(self.connect_token.new_token(300)?) with new_token Ok
MintOk(c) ==
    /\ pc[c] = "mint"
    /\ mintCalls' = mintCalls + 1
    /\ token' = Some(new_token(connect_token, now, TokenDuration, mintCalls + 1))
    /\ pc' = [pc EXCEPT ![c] = "clone"]
    /\ UNCHANGED <<lockHolder, now, mintFails, op, bearer, inflight, logUrl,
                   result>>
    /\ UNCHANGED sent
    /\ UNCHANGED <<inVars, mtVars>>

\* Mutant: the slot is filled before the result of new_token is looked at
\* (token.replace(new_token(300).unwrap_or_default())), leaving an empty
\* token behind a failed mint.
SlotAfterMintErr_Filled == Some(new_token(connect_token, 0, 0, 0))

\* new_token(300)? returns before token.replace runs: the slot stays as it is.
SlotAfterMintErr == token

\* new_token(300)? with new_token Err: the operation returns the error, the
\* guard is dropped on the way out and the slot is not written.
MintErr(c) ==
    /\ pc[c] = "mint"
    /\ mintFails < MaxMintFails
    /\ mintCalls' = mintCalls + 1
    /\ mintFails' = mintFails + 1
    /\ lockHolder' = DropGuard(c)
    /\ token' = SlotAfterMintErr
    /\ result' = [result EXCEPT ![c] = Some("Err(mint)")]
    /\ pc' = [pc EXCEPT ![c] = "done"]
    /\ UNCHANGED <<now, op, bearer, inflight, logUrl>>
    /\ UNCHANGED sent
    /\ UNCHANGED <<inVars, mtVars>>

\* token.as_ref().unwrap().clone(), then the block ends
Clone(c) ==
    /\ pc[c] = "clone"
    /\ bearer' = [bearer EXCEPT ![c] = Some(Unwrap(token))]
    /\ token' = SlotAfterClone
    /\ lockHolder' = DropGuard(c)
    /\ pc' = [pc EXCEPT ![c] = "send"]
    /\ UNCHANGED <<now, mintCalls, mintFails, op, inflight, logUrl,
                   result>>
    /\ UNCHANGED sent
    /\ UNCHANGED <<inVars, mtVars>>

---------------------------------------------------------------------------
(* The transport requests *)

\* Mutant: a failed request is sent again instead of returning the error.
OnError_Retry == "send"

\* The `?` after send() and json(): the error is returned to the caller.
OnError == "done"

\* Mutant: the log request is built with .bearer_auth(token) like the others.
LogRequest_WithBearer(c) ==
    [url |-> Unwrap(logUrl[c]), auth |-> bearer[c], sentAt |-> now]

\* self.client.get(url): the second request of get_submission_log, to the
\* decoded developer_log_url and with no bearer_auth.
LogRequest(c) ==
    [url |-> Unwrap(logUrl[c]), auth |-> None, sentAt |-> now]

\* self.client.post/get(url).bearer_auth(token)...; req.send()
Send(c) ==
    /\ pc[c] = "send"
    /\ inflight' = [inflight EXCEPT ![c] =
                      Some([url    |-> RequestUrl(Unwrap(op[c])),
                            auth   |-> bearer[c],
                            sentAt |-> now])]
    /\ pc' = [pc EXCEPT ![c] = "await"]
    /\ UNCHANGED <<token, lockHolder, now, mintCalls, mintFails, op, bearer,
                   logUrl, result>>
    /\ sent' = [sent EXCEPT ![c] = @ + 1]
    /\ UNCHANGED <<inVars, mtVars>>

\* req.send()? or response.json::<T>()? (and serde_json::from_value) fails
RecvErr(c, kind) ==
    /\ pc[c] = "await"
    /\ inflight' = [inflight EXCEPT ![c] = None]
    /\ result' = [result EXCEPT ![c] = Some(kind)]
    /\ pc' = [pc EXCEPT ![c] = OnError]
    /\ UNCHANGED <<token, lockHolder, now, mintCalls, mintFails, op, bearer,
                   logUrl>>
    /\ UNCHANGED sent
    /\ UNCHANGED <<inVars, mtVars>>

\* The response arrives and decodes; the three single-request operations
\* return it.
RecvOk(c) ==
    /\ pc[c] = "await"
    /\ Unwrap(op[c]).name # "get_submission_log"
    /\ inflight' = [inflight EXCEPT ![c] = None]
    /\ result' = [result EXCEPT ![c] = Some("Ok")]
    /\ pc' = [pc EXCEPT ![c] = "done"]
    /\ UNCHANGED <<token, lockHolder, now, mintCalls, mintFails, op, bearer,
                   logUrl>>
    /\ UNCHANGED sent
    /\ UNCHANGED <<inVars, mtVars>>

\* get_submission_log: let url = res_data.data.attributes.developer_log_url
RecvLogUrl(c, u) ==
    /\ pc[c] = "await"
    /\ Unwrap(op[c]).name = "get_submission_log"
    /\ inflight' = [inflight EXCEPT ![c] = None]
    /\ logUrl' = [logUrl EXCEPT ![c] = Some(u)]
    /\ pc' = [pc EXCEPT ![c] = "send_log"]
    /\ UNCHANGED <<token, lockHolder, now, mintCalls, mintFails, op, bearer,
                   result>>
    /\ UNCHANGED sent
    /\ UNCHANGED <<inVars, mtVars>>

\* self.client.get(url).send(): no bearer_auth on this request
SendLog(c) ==
    /\ pc[c] = "send_log"
    /\ inflight' = [inflight EXCEPT ![c] = Some(LogRequest(c))]
    /\ pc' = [pc EXCEPT ![c] = "await_log"]
    /\ UNCHANGED <<token, lockHolder, now, mintCalls, mintFails, op, bearer,
                   logUrl, result>>
    /\ sent' = [sent EXCEPT ![c] = @ + 1]
    /\ UNCHANGED <<inVars, mtVars>>

\* .send()? or .json::<Value>()? of the log request fails
RecvLogErr(c, kind) ==
    /\ pc[c] = "await_log"
    /\ inflight' = [inflight EXCEPT ![c] = None]
    /\ result' = [result EXCEPT ![c] = Some(kind)]
    /\ pc' = [pc EXCEPT ![c] = OnError]
    /\ UNCHANGED <<token, lockHolder, now, mintCalls, mintFails, op, bearer,
                   logUrl>>
    /\ UNCHANGED sent
    /\ UNCHANGED <<inVars, mtVars>>

\* Ok(logs)
RecvLogOk(c) ==
    /\ pc[c] = "await_log"
    /\ inflight' = [inflight EXCEPT ![c] = None]
    /\ result' = [result EXCEPT ![c] = Some("Ok")]
    /\ pc' = [pc EXCEPT ![c] = "done"]
    /\ UNCHANGED <<token, lockHolder, now, mintCalls, mintFails, op, bearer,
                   logUrl>>
    /\ UNCHANGED sent
    /\ UNCHANGED <<inVars, mtVars>>

\* The operation has returned: its locals are gone.
Return(c) ==
    /\ pc[c] = "done"
    /\ pc' = [pc EXCEPT ![c] = "idle"]
    /\ op' = [op EXCEPT ![c] = None]
    /\ bearer' = [bearer EXCEPT ![c] = None]
    /\ logUrl' = [logUrl EXCEPT ![c] = None]
    /\ result' = [result EXCEPT ![c] = None]
    /\ UNCHANGED <<token, lockHolder, now, mintCalls, mintFails, inflight>>
    /\ sent' = [sent EXCEPT ![c] = 0]
    /\ UNCHANGED <<inVars, mtVars>>

\* Time passes.
Tick ==
    /\ now + ClockStep <= MaxClock
    /\ now' = now + ClockStep
    /\ UNCHANGED <<token, lockHolder, mintCalls, mintFails, pc, op, bearer,
                   inflight, logUrl, result>>
    /\ UNCHANGED sent
    /\ UNCHANGED <<inVars, mtVars>>

ErrKinds == {"Err(transport)", "Err(decode)"}

---------------------------------------------------------------------------
(* DevIdPlusInfoResponse *)

\* The DevIdPlus documents the RPC may answer with: every combination of the
\* optional fields (date_str, request_status and request_uuid drive nothing).
LegacyDocs ==
    [log_file_url   : {None, Some("https://log.example/a")},
     more_info      : {None, Some([hash |-> None]), Some([hash |-> Some("cdhash")])},
     status_code    : {None, Some(0), Some(66)},
     status_message : {None, Some("ok"), Some("bad signature")}]

\* Mutant: the more_info branch is tested before the status_code branch.
state_str_MoreInfoFirst(d) ==
    IF IsSome(d.log_file_url)
    THEN [stage |-> 5, text |-> "have log URL; operation complete", arg |-> None]
    ELSE IF IsSome(d.more_info)
    THEN IF IsSome(Unwrap(d.more_info).hash)
         THEN [stage |-> 3, text |-> "have hash ({}); waiting on status code",
               arg |-> Unwrap(d.more_info).hash]
         ELSE [stage |-> 2, text |-> "some metadata; waiting on hash to appear",
               arg |-> None]
    ELSE IF IsSome(d.status_code)
    THEN [stage |-> 4, text |-> "have status code ({}); waiting on log URL",
          arg |-> d.status_code]
    ELSE [stage |-> 1, text |-> "initial state; waiting on initial metadata",
          arg |-> None]

\* state_str: the "N/5 ..." narration; stage is its leading N, arg the value
\* the format! call interpolates.
state_str(d) ==
    IF IsSome(d.log_file_url)
    THEN [stage |-> 5, text |-> "have log URL; operation complete", arg |-> None]
    ELSE IF IsSome(d.status_code)
    THEN [stage |-> 4, text |-> "have status code ({}); waiting on log URL",
          arg |-> d.status_code]
    ELSE IF IsSome(d.more_info)
    THEN IF IsSome(Unwrap(d.more_info).hash)
         THEN [stage |-> 3, text |-> "have hash ({}); waiting on status code",
               arg |-> Unwrap(d.more_info).hash]
         ELSE [stage |-> 2, text |-> "some metadata; waiting on hash to appear",
               arg |-> None]
    ELSE [stage |-> 1, text |-> "initial state; waiting on initial metadata",
          arg |-> None]

\* Mutant: only the log URL is asked for.
is_done_LogOnly(d) == IsSome(d.log_file_url)

\* is_done
is_done(d) == IsSome(d.status_code) /\ IsSome(d.log_file_url)

\* Mutant: only the status code is matched; an absent message reads as "".
into_result_CodeOnly(d) ==
    IF IsSome(d.status_code)
    THEN IF Unwrap(d.status_code) = 0
         THEN [kind |-> "Ok", code |-> None, message |-> None, value |-> Some(d)]
         ELSE [kind |-> "NotarizeRejected", code |-> d.status_code,
               message |-> IF IsSome(d.status_message) THEN d.status_message
                           ELSE Some(""),
               value |-> None]
    ELSE [kind |-> "NotarizeIncomplete", code |-> None, message |-> None,
          value |-> None]

\* Mutant: only the message is matched; an absent code reads as 0
\* (status_code.unwrap_or_default()).
into_result_DefaultCode(d) ==
    IF IsSome(d.status_message)
    THEN IF (IF IsSome(d.status_code) THEN Unwrap(d.status_code) ELSE 0) = 0
         THEN [kind |-> "Ok", code |-> None, message |-> None, value |-> Some(d)]
         ELSE [kind |-> "NotarizeRejected", code |-> d.status_code,
               message |-> d.status_message, value |-> None]
    ELSE [kind |-> "NotarizeIncomplete", code |-> None, message |-> None,
          value |-> None]

\* DevIdPlusInfoResponse::into_result
into_result(d) ==
    IF IsSome(d.status_code) /\ IsSome(d.status_message)
    THEN IF Unwrap(d.status_code) = 0
         THEN [kind |-> "Ok", code |-> None, message |-> None, value |-> Some(d)]
         ELSE [kind |-> "NotarizeRejected", code |-> d.status_code,
               message |-> d.status_message, value |-> None]
    ELSE [kind |-> "NotarizeIncomplete", code |-> None, message |-> None,
          value |-> None]

---------------------------------------------------------------------------
(* SubmissionResponse *)

\* Status strings the service may send.
StatusStrings == {"Accepted", "In Progress", "Invalid", "Rejected", "Unknown",
                  "InProgress", "accepted", "Weird"}

\* Deserialize for SubmissionResponseStatus: PascalCase variant names,
\* InProgress renamed to "In Progress", #[serde(other)] Unknown for the rest.
SubmissionResponseStatus(s) ==
    CASE s = "Accepted"    -> "Accepted"
      [] s = "In Progress" -> "InProgress"
      [] s = "Invalid"     -> "Invalid"
      [] s = "Rejected"    -> "Rejected"
      [] OTHER             -> "Unknown"

\* Mutant: an unrecognized status is taken for "still in progress".
submission_into_result_UnknownRetries(status) ==
    CASE status = "Accepted"   -> [kind |-> "Ok", code |-> None, message |-> None]
      [] status = "Invalid"    -> [kind |-> "NotarizeInvalid", code |-> None,
                                   message |-> None]
      [] status = "Rejected"   -> [kind |-> "NotarizeRejected", code |-> Some(0),
                                   message |-> Some("Notarization error")]
      [] OTHER                 -> [kind |-> "NotarizeIncomplete", code |-> None,
                                   message |-> None]

\* SubmissionResponse::into_result, on the decoded status
submission_into_result(status) ==
    CASE status = "Accepted"   -> [kind |-> "Ok", code |-> None, message |-> None]
      [] status = "InProgress" -> [kind |-> "NotarizeIncomplete", code |-> None,
                                   message |-> None]
      [] status = "Invalid"    -> [kind |-> "NotarizeInvalid", code |-> None,
                                   message |-> None]
      [] status = "Rejected"   -> [kind |-> "NotarizeRejected", code |-> Some(0),
                                   message |-> Some("Notarization error")]
      [] status = "Unknown"    -> [kind |-> "NotarizeInvalid", code |-> None,
                                   message |-> None]

---------------------------------------------------------------------------
(* A polling caller: it receives a document and interprets it. *)

\* Mutant: the client keeps the fields earlier responses had and the new one
\* lacks (a response merged into a stored one).
Decoded_Merged(prev, d) ==
    IF IsNone(prev) THEN d
    ELSE [log_file_url   |-> IF IsSome(d.log_file_url) THEN d.log_file_url
                             ELSE Unwrap(prev).log_file_url,
          more_info      |-> IF IsSome(d.more_info) THEN d.more_info
                             ELSE Unwrap(prev).more_info,
          status_code    |-> IF IsSome(d.status_code) THEN d.status_code
                             ELSE Unwrap(prev).status_code,
          status_message |-> IF IsSome(d.status_message) THEN d.status_message
                             ELSE Unwrap(prev).status_message]

\* serde_json::from_value::<DevIdPlusInfoResponse>(rpc_response.result): each
\* lookup returns a value decoded from its own response; the client stores
\* no earlier response (prev is not read).
Decoded(prev, d) == d

\* A legacy lookup returned d; the caller narrates it, asks whether it is
\* done and converts it into a Result.
PollLegacy(d) ==
    /\ prevDoc' = doc
    /\ prevStateStr' = stateStr
    /\ doc' = Some(d)
    /\ stateStr' = Some(state_str(Decoded(doc, d)))
    /\ done' = Some(is_done(Decoded(doc, d)))
    /\ legacyRes' = Some(into_result(Decoded(doc, d)))
    /\ UNCHANGED <<statusText, subRes>>
    /\ UNCHANGED <<gwVars, mtVars>>

\* get_submission returned a response whose status string is s; the caller
\* converts it into a Result.
PollSubmission(s) ==
    /\ statusText' = Some(s)
    /\ subRes' = Some(submission_into_result(SubmissionResponseStatus(s)))
    /\ UNCHANGED <<doc, prevDoc, stateStr, prevStateStr, done, legacyRes>>
    /\ UNCHANGED <<gwVars, mtVars>>

---------------------------------------------------------------------------
(* Specifications *)

\* AppStoreConnectClient::new: token: Mutex::new(None); no caller is inside
\* an operation.
InitGateway ==
    /\ token = None
    /\ lockHolder = None
    /\ now = 0
    /\ mintCalls = 0
    /\ mintFails = 0
    /\ pc = [c \in Callers |-> "idle"]
    /\ op = [c \in Callers |-> None]
    /\ bearer = [c \in Callers |-> None]
    /\ inflight = [c \in Callers |-> None]
    /\ logUrl = [c \in Callers |-> None]
    /\ result = [c \in Callers |-> None]
    /\ sent = [c \in Callers |-> 0]

\* Nothing has been received yet.
InitInterp ==
    /\ doc = None
    /\ prevDoc = None
    /\ stateStr = None
    /\ prevStateStr = None
    /\ done = None
    /\ legacyRes = None
    /\ statusText = None
    /\ subRes = None

\* new_token has not been called on its own yet.
InitMint ==
    /\ mintIn = None
    /\ mintOut = None

Init == InitGateway /\ InitInterp /\ InitMint

\* The client under concurrent callers.
Next ==
    \/ \E c \in Callers, o \in Ops, id \in Ids : Call(c, o, id)
    \/ \E c \in Callers : Lock(c)
    \/ \E c \in Callers : Check(c)
    \/ \E c \in Callers : MintOk(c)
    \/ \E c \in Callers : MintErr(c)
    \/ \E c \in Callers : Clone(c)
    \/ \E c \in Callers : Send(c)
    \/ \E c \in Callers, k \in ErrKinds : RecvErr(c, k)
    \/ \E c \in Callers : RecvOk(c)
    \/ \E c \in Callers, u \in LogUrls : RecvLogUrl(c, u)
    \/ \E c \in Callers : SendLog(c)
    \/ \E c \in Callers, k \in ErrKinds : RecvLogErr(c, k)
    \/ \E c \in Callers : RecvLogOk(c)
    \/ \E c \in Callers : Return(c)
    \/ Tick

Spec == Init /\ [][Next]_vars

\* The scheduler lets every thread run (weak fairness of the steps inside the
\* section, which nothing disables) and a thread blocked in Mutex::lock gets
\* the lock if it is free again and again (strong fairness of Lock).
Fairness ==
    \A c \in Callers :
        /\ SF_vars(Lock(c))
        /\ WF_vars(Check(c))
        /\ WF_vars(MintOk(c) \/ MintErr(c))
        /\ WF_vars(Clone(c))

SpecFair == Init /\ [][Next]_vars /\ Fairness

\* The interpretation of the documents a polling caller receives.
NextInterp ==
    \/ \E d \in LegacyDocs : PollLegacy(d)
    \/ \E s \in StatusStrings : PollSubmission(s)

SpecInterp == Init /\ [][NextInterp]_vars

\* The token minter called on its own.
NextMint ==
    \E identity \in Identities, t \in MintClocks, d \in MintDurations,
       serial \in {1, 2} : MintToken(identity, t, d, serial)

SpecMint == Init /\ [][NextMint]_vars

---------------------------------------------------------------------------
(* Properties of the token slot *)

\* The authenticated requests in flight.
Authenticated(c) == IsSome(inflight[c]) /\ IsSome(Unwrap(inflight[c]).auth)

\* The token an authenticated request of caller c carries.
Carried(c) == Unwrap(Unwrap(inflight[c]).auth)

InSection(c) == pc[c] \in {"check", "mint", "clone"}

\* C1: callers racing on an empty slot cause at most one successful mint, and
\* when no mint fails new_token is called at most once in total; every caller
\* that has obtained a token, and every authenticated request in flight,
\* holds the same token value.
C1_SingleMintSharedToken ==
    /\ mintCalls - mintFails <= 1
    /\ (mintFails = 0 => mintCalls <= 1)
    /\ \A c1, c2 \in Callers :
          /\ (IsSome(bearer[c1]) /\ IsSome(bearer[c2]) => bearer[c1] = bearer[c2])
          /\ (Authenticated(c1) /\ Authenticated(c2) => Carried(c1) = Carried(c2))

\* Every caller has an authenticated request in flight at once, after a
\* single call of new_token.
C1_Witness ==
    /\ mintCalls = 1
    /\ mintFails = 0
    /\ \A c \in Callers : Authenticated(c)

\* C2: the slot changes at most once, from empty to a minted value; once it
\* holds a value no step mints again or changes it, and every authenticated
\* request carries the value the slot holds.
C2_SlotWrittenOnce ==
    /\ [](\A c \in Callers : Authenticated(c) => Some(Carried(c)) = token)
    /\ [][/\ (IsSome(token) => token' = token /\ mintCalls' = mintCalls)
          /\ (token' # token => IsNone(token) /\ IsSome(token'))]_vars

\* Some caller is inside a later operation (the slot was full when it
\* checked) and sends the value minted by an earlier one.
C2_Witness ==
    \E c \in Callers :
        /\ Authenticated(c)
        /\ Some(Carried(c)) = token
        /\ Unwrap(inflight[c]).sentAt > Carried(c).claims.iat
        /\ Unwrap(op[c]).name = "get_submission"

\* C3 as stated: no authenticated request is sent with a token whose expiry
\* time has passed.
C3_NoExpiredTokenSent ==
    \A c \in Callers :
        Authenticated(c) => ~Expired(Carried(c), Unwrap(inflight[c]).sentAt)

\* C3 as amended: new_token is called only when the slot is empty (first
\* use), never because the cached token expired; the cached token is valid
\* for 300 seconds from its mint time and every authenticated request
\* carries it whatever the clock says.
C3_MintOnlyWhenEmpty ==
    /\ [](IsSome(token) =>
            Unwrap(token).claims.exp = Unwrap(token).claims.iat + TokenDuration)
    /\ [](\A c \in Callers : Authenticated(c) => Some(Carried(c)) = token)
    /\ [][mintCalls' # mintCalls => IsNone(token)]_vars
    /\ [][IsSome(token) /\ Expired(Unwrap(token), now) =>
            token' = token /\ mintCalls' = mintCalls]_vars

\* A request is sent with the cached token after its expiry time.
C3_Witness ==
    \E c \in Callers :
        /\ Authenticated(c)
        /\ Expired(Carried(c), Unwrap(inflight[c]).sentAt)

\* C4: the lock is owned only inside the check-and-mint section; a caller
\* that is about to send, has sent or awaits either of its requests does not
\* own it.
C4_NoLockAcrossTransport ==
    \A c \in Callers :
        /\ (lockHolder = Some(c) => InSection(c))
        /\ (pc[c] \in {"send", "await", "send_log", "await_log"} =>
              lockHolder # Some(c))
        /\ (IsSome(inflight[c]) => lockHolder # Some(c))

\* One caller awaits its log request while another owns the lock.
C4_Witness ==
    \E c1, c2 \in Callers :
        /\ pc[c1] = "await_log"
        /\ IsSome(inflight[c1])
        /\ lockHolder = Some(c2)
        /\ InSection(c2)

---------------------------------------------------------------------------
(* Properties of the interpretation of status documents *)

\* Every optional field present in d1 is present in d2.
Superset(d2, d1) ==
    /\ (IsSome(d1.log_file_url) => IsSome(d2.log_file_url))
    /\ (IsSome(d1.more_info) => IsSome(d2.more_info))
    /\ (IsSome(d1.more_info) /\ IsSome(Unwrap(d1.more_info).hash) =>
          IsSome(Unwrap(d2.more_info).hash))
    /\ (IsSome(d1.status_code) => IsSome(d2.status_code))
    /\ (IsSome(d1.status_message) => IsSome(d2.status_message))

\* C5: into_result of a legacy document with both status code and status
\* message is Ok(the same document) when the code is 0 and
\* NotarizeRejected(code, message) with that code and message otherwise; with
\* either field absent it is NotarizeIncomplete.
C5_LegacyOutcome ==
    IsSome(doc) =>
        LET d == Unwrap(doc)
            r == Unwrap(legacyRes)
        IN  IF IsSome(d.status_code) /\ IsSome(d.status_message)
            THEN IF Unwrap(d.status_code) = 0
                 THEN r.kind = "Ok" /\ r.value = Some(d)
                 ELSE /\ r.kind = "NotarizeRejected"
                      /\ r.code = d.status_code
                      /\ r.message = d.status_message
            ELSE r.kind = "NotarizeIncomplete"

\* A document with code 0 and no message has been converted (incomplete).
C5_Witness ==
    /\ IsSome(doc)
    /\ Unwrap(doc).status_code = Some(0)
    /\ IsNone(Unwrap(doc).status_message)
    /\ Unwrap(legacyRes).kind = "NotarizeIncomplete"

\* C6: SubmissionResponse::into_result is Ok exactly for status Accepted and
\* NotarizeIncomplete exactly for "In Progress"; Invalid gives
\* NotarizeInvalid, Rejected gives NotarizeRejected(0, "Notarization error"),
\* and every other status string (decoded to Unknown) gives NotarizeInvalid.
C6_SubmissionOutcome ==
    IsSome(statusText) =>
        LET s == Unwrap(statusText)
            r == Unwrap(subRes)
        IN  /\ (r.kind = "Ok" <=> s = "Accepted")
            /\ (r.kind = "NotarizeIncomplete" <=> s = "In Progress")
            /\ (s = "Invalid" => r.kind = "NotarizeInvalid")
            /\ (s = "Rejected" =>
                  /\ r.kind = "NotarizeRejected"
                  /\ r.code = Some(0)
                  /\ r.message = Some("Notarization error"))
            /\ (s \notin {"Accepted", "In Progress", "Invalid", "Rejected"} =>
                  /\ SubmissionResponseStatus(s) = "Unknown"
                  /\ r.kind = "NotarizeInvalid")

\* An unrecognized status string has been converted (invalid).
C6_Witness ==
    /\ statusText = Some("Weird")
    /\ Unwrap(subRes).kind = "NotarizeInvalid"

\* C7: is_done is true exactly when the document has both a status code and
\* a log URL.
C7_DoneIffCodeAndLog ==
    IsSome(doc) =>
        (Unwrap(done) <=>
            IsSome(Unwrap(doc).status_code) /\ IsSome(Unwrap(doc).log_file_url))

\* A document with a log URL and no status code has been asked (not done).
C7_Witness ==
    /\ IsSome(doc)
    /\ IsSome(Unwrap(doc).log_file_url)
    /\ IsNone(Unwrap(doc).status_code)
    /\ done = Some(FALSE)

\* C8: when a snapshot has every optional field the snapshot before it had,
\* its stage is not earlier than the stage of the one before.
C8_StageMonotonic ==
    IsSome(prevDoc) /\ Superset(Unwrap(doc), Unwrap(prevDoc)) =>
        Unwrap(stateStr).stage >= Unwrap(prevStateStr).stage

\* A snapshot with a status code follows one that had more_info with a hash
\* and no status code: the stage went from 3 to 4.
C8_Witness ==
    /\ IsSome(prevDoc)
    /\ Superset(Unwrap(doc), Unwrap(prevDoc))
    /\ Unwrap(prevStateStr).stage = 3
    /\ Unwrap(stateStr).stage = 4
    /\ IsSome(Unwrap(doc).more_info)

\* C9: a document classified as stage 1, 2 or 3 converts to
\* NotarizeIncomplete.
C9_EarlyStagesIncomplete ==
    IsSome(doc) /\ Unwrap(stateStr).stage \in {1, 2, 3} =>
        Unwrap(legacyRes).kind = "NotarizeIncomplete"

\* A stage 3 document that already has a status message has been converted.
C9_Witness ==
    /\ IsSome(doc)
    /\ Unwrap(stateStr).stage = 3
    /\ IsSome(Unwrap(doc).status_message)
    /\ Unwrap(legacyRes).kind = "NotarizeIncomplete"

\* The Initial state as the doc comment of DevIdPlusInfoResponse gives it:
\* log_file_url: None, more_info: None, status_code: Some(0),
\* status_message: None.
DocumentedInitial ==
    [log_file_url |-> None, more_info |-> None, status_code |-> Some(0),
     status_message |-> None]

\* C10: the documented Initial response is classified as stage 1.
C10_DocumentedInitialIsStage1 ==
    doc = Some(DocumentedInitial) => Unwrap(stateStr).stage = 1

\* C11: stage 4 is reported only for documents that have both the status
\* code and the status message (and no log URL).
C11_Stage4HasCodeAndMessage ==
    IsSome(doc) /\ Unwrap(stateStr).stage = 4 =>
        /\ IsSome(Unwrap(doc).status_code)
        /\ IsSome(Unwrap(doc).status_message)
        /\ IsNone(Unwrap(doc).log_file_url)

---------------------------------------------------------------------------
(* Properties of the gateway operations *)

IsLogOp(c) == IsSome(op[c]) /\ Unwrap(op[c]).name = "get_submission_log"

IsErr(r) == r \in {Some("Err(mint)"), Some("Err(transport)"), Some("Err(decode)")}

\* C12: get_submission_log sends its second request only after the first
\* has succeeded and been decoded to a developerLogUrl; the second request
\* goes to exactly that URL and carries no bearer token; the operation
\* returns Ok only after both requests, and when the first step fails the
\* second request is never sent.
C12_LogTwoStepOrder ==
    \A c \in Callers :
        /\ (sent[c] = 2 => IsLogOp(c) /\ IsSome(logUrl[c]))
        /\ (pc[c] = "await_log" =>
              /\ sent[c] = 2
              /\ IsSome(inflight[c])
              /\ Unwrap(inflight[c]).url = Unwrap(logUrl[c])
              /\ IsNone(Unwrap(inflight[c]).auth))
        /\ (IsSome(inflight[c]) /\ sent[c] = 1 =>
              /\ IsNone(logUrl[c])
              /\ IsSome(Unwrap(inflight[c]).auth)
              /\ Unwrap(inflight[c]).url = RequestUrl(Unwrap(op[c])))
        /\ (IsLogOp(c) /\ result[c] = Some("Ok") =>
              sent[c] = 2 /\ IsSome(logUrl[c]))
        /\ (IsLogOp(c) /\ IsErr(result[c]) /\ IsNone(logUrl[c]) => sent[c] <= 1)

\* A get_submission_log call awaits its second request, sent to the second
\* of the URLs the first response may name.
C12_Witness ==
    \E c \in Callers :
        /\ pc[c] = "await_log"
        /\ logUrl[c] = Some(<<"https://log.example/b">>)
        /\ Unwrap(inflight[c]).url = <<"https://log.example/b">>
        /\ sent[c] = 2

\* C13: a call sends at most one request (two for get_submission_log); once
\* a call holds a result it is about to return it, with nothing in flight,
\* and an error result came after at most the requests that step allows.
C13_NoRetryNoSwallow ==
    \A c \in Callers :
        /\ sent[c] <= (IF IsLogOp(c) THEN 2 ELSE 1)
        /\ (IsSome(result[c]) => pc[c] = "done" /\ IsNone(inflight[c]))
        /\ (pc[c] = "done" => IsSome(result[c]))
        /\ (result[c] = Some("Err(mint)") => sent[c] = 0)
        /\ (result[c] \in {Some("Err(transport)"), Some("Err(decode)")} =>
              sent[c] = (IF IsSome(logUrl[c]) THEN 2 ELSE 1))

\* A get_submission_log call returns the transport error of its first
\* request, having sent that request only.
C13_Witness ==
    \E c \in Callers :
        /\ IsLogOp(c)
        /\ pc[c] = "done"
        /\ result[c] = Some("Err(transport)")
        /\ sent[c] = 1

---------------------------------------------------------------------------
(* Properties of the token minter *)

\* C14: for every identity, clock value and validity window, new_token
\* builds claims with exp = iat + window, iat = now, iss = the identity's
\* issuer id, aud = "appstoreconnect-v1" and a header whose kid is the
\* identity's key id.
C14_ClaimsAsRequested ==
    IsSome(mintOut) =>
        LET in == Unwrap(mintIn)
            out == Unwrap(mintOut)
        IN  /\ out.kind # "Panic"
            /\ (out.kind = "Ok" =>
                  LET tok == Unwrap(out.value)
                  IN  /\ tok.claims.exp = tok.claims.iat + in.duration
                      /\ tok.claims.iat = in.now
                      /\ tok.claims.iss = in.identity.issuer_id
                      /\ tok.claims.aud = "appstoreconnect-v1"
                      /\ tok.header.kid = Some(in.identity.key_id))

---------------------------------------------------------------------------
(* Properties of successive lookups *)

\* A document with only base metadata, and one with every optional field
\* and status code 0.
Stage1Doc ==
    [log_file_url |-> None, more_info |-> None, status_code |-> None,
     status_message |-> None]

Stage5Doc ==
    [log_file_url |-> Some("https://log.example/a"),
     more_info |-> Some([hash |-> Some("cdhash")]),
     status_code |-> Some(0), status_message |-> Some("ok")]

---------------------------------------------------------------------------
(* Properties of a failed mint *)

\* C16: a call whose mint failed returns the minter's error having sent no
\* request and holding no token; the failing step leaves the slot empty and
\* releases the lock; a later call that finds the slot empty mints again,
\* so no caller ever clones anything but a minted token.
C16_MintFailureLeavesSlotEmpty ==
    /\ [](\A c \in Callers :
            /\ (result[c] = Some("Err(mint)") =>
                  /\ pc[c] = "done"
                  /\ sent[c] = 0
                  /\ IsNone(inflight[c])
                  /\ IsNone(bearer[c])
                  /\ lockHolder # Some(c))
            /\ (pc[c] = "clone" => IsSome(token) /\ Unwrap(token).sig >= 1))
    /\ [][mintFails' # mintFails =>
            /\ IsNone(token)
            /\ token' = token
            /\ IsSome(lockHolder)
            /\ lockHolder' = None
            /\ result'[Unwrap(lockHolder)] = Some("Err(mint)")]_vars
    /\ [][\A c \in Callers :
            pc[c] = "check" /\ pc'[c] # "check" /\ IsNone(token) =>
                pc'[c] = "mint"]_vars

\* After a failed mint a later call has minted: the slot holds the token of
\* the second new_token call.
C16_Witness ==
    /\ mintFails = 1
    /\ mintCalls = 2
    /\ IsSome(token)
    /\ Unwrap(token).sig = 2
    /\ \E c \in Callers : Authenticated(c)

---------------------------------------------------------------------------
(* Agreement of state_str, is_done and into_result *)

\* C17: whenever stage 5 is reported, is_done is true and into_result is
\* decided (Ok or NotarizeRejected).
C17_Stage5DoneAndDecided ==
    IsSome(doc) /\ Unwrap(stateStr).stage = 5 =>
        /\ done = Some(TRUE)
        /\ Unwrap(legacyRes).kind \in {"Ok", "NotarizeRejected"}

\* C18: whenever is_done is true, into_result is a final verdict (Ok or
\* NotarizeRejected), never NotarizeIncomplete.
C18_DoneHasVerdict ==
    IsSome(doc) /\ done = Some(TRUE) =>
        Unwrap(legacyRes).kind # "NotarizeIncomplete"

---------------------------------------------------------------------------
(* Progress through the token section *)

====
